---- MODULE Spec2Model ----
(***************************************************************************)
(* A model of the finite-automata builder of src/r11.py: the StateItem     *)
(* data fields, the Automaton engine (add_state, set_start, set_accept,    *)
(* add_transition, simulate) and the AutomataWindow handlers that change   *)
(* it (add state, click, set start, set accept, add transition, save,      *)
(* load).  Spec is the window, always in DFA mode; EngineSpec is the       *)
(* engine called directly, in either mode, where simulate runs are taken.  *)
(*                                                                         *)
(* StateItem objects live in a heap `items` and are referred to by index,  *)
(* because the program holds references to them (Automaton.states maps a   *)
(* name to an object, AutomataWindow.selected_state is an object) and an   *)
(* object can outlive the automaton it was built for.                      *)
(***************************************************************************)
EXTENDS Integers, Sequences, FiniteSets, TLC

\* State names typed into the "State Name" dialog (non-empty strings).
Names == {"q0", "q1"}
\* Single-character transition symbols, also the characters of input strings.
Symbols == {"a", "b"}
\* Longest input string handed to simulate.
MaxLen == 2
\* Most (from, symbol, to) entries stored over all StateItem objects.
MaxTrans == 2

\* Python's None for start_state, and for a name lookup that finds nothing.
None == "None"
\* Python's None for an object reference (selected_state, dict.get).
NoItem == 0
\* No exception pending.
NoError == "ok"

VARIABLES
    items,          \* heap of StateItem objects: name, is_start, is_accept, transitions, deleted
    automaton,      \* the Automaton: states, start_state, accept_states, is_dfa
    selected_state, \* AutomataWindow.selected_state: an index into items, or NoItem
    file,           \* the JSON record last written by save_automaton, or NoFile
    result          \* outcome of the last handler: a simulate run, or an exception

vars == <<items, automaton, selected_state, file, result>>

----------------------------------------------------------------------------
(* Data *)

\* StateItem.__init__: a fresh object; `deleted` is the Qt side of the object
\* (set when QGraphicsScene.clear() destroys the item).
StateItem(name) ==
    [name |-> name, is_start |-> FALSE, is_accept |-> FALSE,
     transitions |-> << >>, deleted |-> FALSE]

\* Automaton.__init__
Automaton(is_dfa) ==
    [states |-> << >>, start_state |-> None, accept_states |-> {}, is_dfa |-> is_dfa]

\* dict.get(key): the value, or None.
DictGet(d, key) == IF key \in DOMAIN d THEN d[key] ELSE NoItem

\* d[key] = value on a dict.
DictSet(d, key, value) ==
    [k \in DOMAIN d \cup {key} |-> IF k = key THEN value ELSE d[k]]

\* value in list
InList(list, value) == \E i \in 1..Len(list) : list[i] = value

\* Input strings of simulate, as sequences of characters.
Inputs == UNION {[1..n -> Symbols] : n \in 0..MaxLen}

RECURSIVE SumLens(_, _)
SumLens(d, keys) ==
    IF keys = {} THEN 0
    ELSE LET k == CHOOSE x \in keys : TRUE
         IN Len(d[k]) + SumLens(d, keys \ {k})

RECURSIVE TotalEntries(_, _)
\* Number of stored (from, symbol, to) entries over the first n objects.
TotalEntries(its, n) ==
    IF n = 0 THEN 0
    ELSE SumLens(its[n].transitions, DOMAIN its[n].transitions) + TotalEntries(its, n - 1)

----------------------------------------------------------------------------
(* A world is the pair the engine's methods read and write, with the        *)
(* exception raised so far: once `error` is set the rest of a handler is    *)
(* skipped.  `sip` says what a call of a Qt method on a deleted item does.  *)

Raise(W, e) == [W EXCEPT !.error = e]

\* QGraphicsItem.update() / scenePos() called on item o.  The wrapper of an
\* item that QGraphicsScene.clear() destroyed is a dangling reference: the
\* call either raises RuntimeError or goes through, depending on the binding.
QtCall(W, o) ==
    IF W.items[o].deleted /\ W.sip = "raise" THEN Raise(W, "RuntimeError") ELSE W

\* StateItem.set_start
StateItem_set_start(W, o, is_start) ==
    QtCall([W EXCEPT !.items[o].is_start = is_start], o)

\* StateItem.set_accept
StateItem_set_accept(W, o, is_accept) ==
    QtCall([W EXCEPT !.items[o].is_accept = is_accept], o)

\* Automaton.add_state
Automaton_add_state(W, o) ==
    [W EXCEPT !.automaton.states = DictSet(@, W.items[o].name, o)]

\* Automaton.set_start
Automaton_set_start(W, o) ==
    LET a == W.automaton
        old_start == DictGet(a.states, a.start_state)
        W1 == IF a.start_state # None /\ a.start_state # W.items[o].name
                 /\ old_start # NoItem
              THEN StateItem_set_start(W, old_start, FALSE)
              ELSE W
    IN IF W1.error # NoError THEN W1
       ELSE StateItem_set_start(
                [W1 EXCEPT !.automaton.start_state = W.items[o].name], o, TRUE)

\* Bug variant of set_accept: a second call un-marks the state.
Automaton_set_accept_toggle(W, o) ==
    LET on == ~W.items[o].is_accept
        W1 == StateItem_set_accept(W, o, on)
    IN IF W1.error # NoError THEN W1
       ELSE [W1 EXCEPT !.automaton.accept_states =
                IF on THEN @ \cup {W.items[o].name} ELSE @ \ {W.items[o].name}]

\* Automaton.set_accept
Automaton_set_accept(W, o) ==
    LET W1 == StateItem_set_accept(W, o, TRUE)
    IN IF W1.error # NoError THEN W1
       ELSE [W1 EXCEPT !.automaton.accept_states = @ \cup {W.items[o].name}]

\* Bug variant of add_transition: the target is appended without the
\* membership test.
Automaton_add_transition_nodedup(W, from_state, symbol, to_state) ==
    LET trans == W.items[from_state].transitions
        t1 == IF symbol \notin DOMAIN trans THEN DictSet(trans, symbol, << >>) ELSE trans
    IN [W EXCEPT !.items[from_state].transitions =
            DictSet(t1, symbol, Append(t1[symbol], W.items[to_state].name))]

\* Automaton.add_transition
Automaton_add_transition(W, from_state, symbol, to_state) ==
    LET trans == W.items[from_state].transitions
        t1 == IF symbol \notin DOMAIN trans THEN DictSet(trans, symbol, << >>) ELSE trans
        t2 == IF ~InList(t1[symbol], W.items[to_state].name)
              THEN DictSet(t1, symbol, Append(t1[symbol], W.items[to_state].name))
              ELSE t1
    IN [W EXCEPT !.items[from_state].transitions = t2]

----------------------------------------------------------------------------
(* Automaton.simulate.  A run is reported as a record: status "returned"   *)
(* with the boolean `ret`, or status "raised" with `error`; `frontiers` is *)
(* the value of current_states after each character consumed in NFA mode.  *)

Returned(input_str, frontiers, ret) ==
    [status |-> "returned", input |-> input_str, frontiers |-> frontiers,
     ret |-> ret, error |-> NoError]

Raised(input_str, frontiers, e) ==
    [status |-> "raised", input |-> input_str, frontiers |-> frontiers,
     ret |-> FALSE, error |-> e]

\* No handler outcome to report.
Idle ==
    [status |-> "idle", input |-> << >>, frontiers |-> << >>,
     ret |-> FALSE, error |-> NoError]

\* Bug variant: the last target of the list is followed.
DfaTargetLast(list) == list[Len(list)]

\* state.transitions[char][0]
DfaTarget(list) == list[1]

RECURSIVE DfaWalk(_, _, _, _)
\* The loop of DFA mode from character i on, with `current` the state name held.
DfaWalk(W, input_str, i, current) ==
    IF i > Len(input_str)
    THEN Returned(input_str, << >>, current \in W.automaton.accept_states)
    ELSE LET state == DictGet(W.automaton.states, current)
         IN IF state = NoItem \/ input_str[i] \notin DOMAIN W.items[state].transitions
            THEN Returned(input_str, << >>, FALSE)
            ELSE DfaWalk(W, input_str, i + 1,
                         DfaTarget(W.items[state].transitions[input_str[i]]))

\* Bug variant: every frontier state must be accepting.
NfaAcceptAll(W, current_states) ==
    \A s \in current_states : s \in W.automaton.accept_states

\* any(s in self.accept_states for s in current_states)
NfaAccept(W, current_states) ==
    \E s \in current_states : s \in W.automaton.accept_states

\* The body of the NFA loop for one character: the next frontier.  Only
\* evaluated when every frontier name is a key of states.
NfaNext(W, char, current_states) ==
    UNION {LET state == W.items[W.automaton.states[state_name]]
           IN IF char \in DOMAIN state.transitions
              THEN {state.transitions[char][j] : j \in 1..Len(state.transitions[char])}
              ELSE {}
           : state_name \in current_states}

RECURSIVE NfaWalk(_, _, _, _, _)
\* The loop of NFA mode from character i on; self.states[state_name] raises
\* KeyError when a frontier name is not a key of states.
NfaWalk(W, input_str, i, current_states, frontiers) ==
    IF i > Len(input_str)
    THEN Returned(input_str, frontiers, NfaAccept(W, current_states))
    ELSE IF \E state_name \in current_states : state_name \notin DOMAIN W.automaton.states
         THEN Raised(input_str, frontiers, "KeyError")
         ELSE LET next_states == NfaNext(W, input_str[i], current_states)
              IN NfaWalk(W, input_str, i + 1, next_states, Append(frontiers, next_states))

\* Bug variant of simulate: the start-state guard is missing.
Automaton_simulate_noguard(W, input_str) ==
    IF W.automaton.is_dfa
    THEN DfaWalk(W, input_str, 1, W.automaton.start_state)
    ELSE NfaWalk(W, input_str, 1, {W.automaton.start_state}, << >>)

\* Automaton.simulate
Automaton_simulate(W, input_str) ==
    IF W.automaton.start_state = None
    THEN Returned(input_str, << >>, FALSE)
    ELSE IF W.automaton.is_dfa
         THEN DfaWalk(W, input_str, 1, W.automaton.start_state)
         ELSE NfaWalk(W, input_str, 1, {W.automaton.start_state}, << >>)

----------------------------------------------------------------------------
\* The world a handler starts in.
World(sip) == [items |-> items, automaton |-> automaton, error |-> NoError, sip |-> sip]

Commit(W, res) ==
    /\ items' = W.items
    /\ automaton' = W.automaton
    /\ result' = res

----------------------------------------------------------------------------
(* The AutomataWindow handlers. *)

\* No file written yet.
NoFile ==
    [saved |-> FALSE, states |-> << >>, start |-> None, accept |-> << >>,
     transitions |-> << >>]

\* Objects that are values of the states dict.
Mapped(a) == {a.states[n] : n \in DOMAIN a.states}

\* list(self.automaton.states.keys()): the keys in insertion order.  The
\* window inserts every object when it constructs it, so insertion order is
\* the order of the objects in the heap.
StateKeys(W) ==
    LET live == Mapped(W.automaton)
        rank(o) == Cardinality({k \in live : k <= o})
    IN [i \in 1..Cardinality(live) |->
            W.items[CHOOSE o \in live : rank(o) = i].name]

\* All orders in which list(set) can enumerate a set.
Orders(S) ==
    {f \in [1..Cardinality(S) -> S] : \A i, j \in DOMAIN f : f[i] = f[j] => i = j}

\* The `data` dict of save_automaton, with `accept` in the given order; the
\* JSON text maps str, list, dict with str keys and None to themselves.
SaveData(W, accept) ==
    [saved |-> TRUE,
     states |-> StateKeys(W),
     start |-> W.automaton.start_state,
     accept |-> accept,
     transitions |-> [n \in DOMAIN W.automaton.states |->
                        W.items[W.automaton.states[n]].transitions]]

\* Objects no reference reaches are dropped from the heap, keeping the order
\* of the others: the window references the values of states and
\* selected_state.
Collect(its, a, sel) ==
    LET keep == Mapped(a) \cup ({sel} \ {NoItem})
        rank(o) == Cardinality({k \in keep : k <= o})
    IN [items |-> [i \in 1..Cardinality(keep) |-> its[CHOOSE o \in keep : rank(o) = i]],
        automaton |-> [a EXCEPT !.states = [n \in DOMAIN a.states |-> rank(a.states[n])]],
        selected_state |-> IF sel = NoItem THEN NoItem ELSE rank(sel)]

\* draw_arrow: the border points of both items are asked of Qt.
draw_arrow(W, from_state, to_state) == QtCall(QtCall(W, from_state), to_state)

RECURSIVE LoadTargets(_, _, _, _, _)
\* for to_name in to_list, from entry j on
LoadTargets(W, from_obj, symbol, to_list, j) ==
    IF j > Len(to_list) \/ W.error # NoError THEN W
    ELSE LET to_obj == DictGet(W.automaton.states, to_list[j])
         IN IF to_obj = NoItem
            THEN LoadTargets(W, from_obj, symbol, to_list, j + 1)
            ELSE LoadTargets(
                     draw_arrow(Automaton_add_transition(W, from_obj, symbol, to_obj),
                                from_obj, to_obj),
                     from_obj, symbol, to_list, j + 1)

RECURSIVE LoadSymbols(_, _, _, _)
\* for symbol, to_list in trans.items(), over the symbols still to do
LoadSymbols(W, from_obj, trans, symbols) ==
    IF symbols = {} \/ W.error # NoError THEN W
    ELSE LET symbol == CHOOSE c \in symbols : TRUE
         IN LoadSymbols(LoadTargets(W, from_obj, symbol, trans[symbol], 1),
                        from_obj, trans, symbols \ {symbol})

RECURSIVE LoadTransitions(_, _, _)
\* for from_state, trans in data["transitions"].items(), from key i on
LoadTransitions(W, data, i) ==
    IF i > Len(data.states) \/ W.error # NoError THEN W
    ELSE LET from_state == data.states[i]
             from_obj == DictGet(W.automaton.states, from_state)
         IN IF from_obj = NoItem
            THEN LoadTransitions(W, data, i + 1)
            ELSE LoadTransitions(
                     LoadSymbols(W, from_obj, data.transitions[from_state],
                                 DOMAIN data.transitions[from_state]),
                     data, i + 1)

RECURSIVE LoadAccept(_, _, _)
\* for name in data["accept"], from entry i on; self.automaton.states[name]
\* raises KeyError for a name that is no key.
LoadAccept(W, data, i) ==
    IF i > Len(data.accept) \/ W.error # NoError THEN W
    ELSE IF data.accept[i] \notin DOMAIN W.automaton.states
         THEN Raise(W, "KeyError")
         ELSE LoadAccept(Automaton_set_accept(W, W.automaton.states[data.accept[i]]),
                         data, i + 1)

RECURSIVE LoadStates(_, _, _)
\* for i, name in enumerate(data["states"])
LoadStates(W, data, i) ==
    IF i > Len(data.states) THEN W
    ELSE LoadStates(
             Automaton_add_state(
                 [W EXCEPT !.items = Append(@, StateItem(data.states[i]))],
                 Len(W.items) + 1),
             data, i + 1)

\* load_automaton after the file is read: the scene is cleared, which
\* destroys the Qt side of every item, and a new automaton is built.  Of the
\* old objects only the selected one stays referenced; `selected` is that
\* object (a sequence of at most one record), kept after the new ones.
Load(data, selected, sip) ==
    LET W0 == [items |-> << >>, automaton |-> Automaton(TRUE),
               error |-> NoError, sip |-> sip]
        W1 == LoadStates(W0, data, 1)
        W2 == IF data.start # None
              THEN IF data.start \notin DOMAIN W1.automaton.states
                   THEN Raise(W1, "KeyError")
                   ELSE Automaton_set_start(W1, W1.automaton.states[data.start])
              ELSE W1
        W3 == LoadAccept(W2, data, 1)
        W4 == LoadTransitions(W3, data, 1)
    IN [W4 EXCEPT !.items =
            @ \o [i \in 1..Len(selected) |-> [selected[i] EXCEPT !.deleted = TRUE]]]

\* What a Qt call on the selected item can do in this handler.
SipOutcomes ==
    IF selected_state # NoItem /\ items[selected_state].deleted
    THEN {"raise", "return"}
    ELSE {"raise"}

\* What the event loop sees of a handler that ended in world W.
Outcome(W) == IF W.error # NoError THEN Raised(<< >>, << >>, W.error) ELSE Idle

Init ==
    /\ items = << >>
    /\ automaton = Automaton(TRUE)
    /\ selected_state = NoItem
    /\ file = NoFile
    /\ result = Idle

\* AutomataWindow.add_state
add_state ==
    \E name \in Names :
        /\ name \notin DOMAIN automaton.states
        /\ LET W == Automaton_add_state(
                        [World("raise") EXCEPT !.items = Append(@, StateItem(name))],
                        Len(items) + 1)
           IN Commit(W, Idle)
        /\ UNCHANGED <<selected_state, file>>

\* AutomataWindow.on_state_clicked: only items of the scene can be clicked,
\* and those are the values of states.
on_state_clicked ==
    \E state \in Mapped(automaton) :
        LET c == Collect(items, automaton, state)
        IN /\ items' = c.items
           /\ automaton' = c.automaton
           /\ selected_state' = c.selected_state
           /\ result' = Idle
           /\ UNCHANGED file

\* AutomataWindow.set_start_state
set_start_state ==
    /\ selected_state # NoItem
    /\ \E sip \in SipOutcomes :
           LET W == Automaton_set_start(World(sip), selected_state)
           IN Commit(W, Outcome(W))
    /\ UNCHANGED <<selected_state, file>>

\* AutomataWindow.set_accept_state
set_accept_state ==
    /\ selected_state # NoItem
    /\ \E sip \in SipOutcomes :
           LET W == Automaton_set_accept(World(sip), selected_state)
           IN Commit(W, Outcome(W))
    /\ UNCHANGED <<selected_state, file>>

\* AutomataWindow.add_transition, past its dialogs and checks; an exception
\* of the try block is caught and shown, so none reaches the event loop.
add_transition ==
    /\ selected_state # NoItem
    /\ \E to_name \in DOMAIN automaton.states, symbol \in Symbols, sip \in SipOutcomes :
           LET to_state == automaton.states[to_name]
               W == draw_arrow(
                        Automaton_add_transition(World(sip), selected_state, symbol, to_state),
                        selected_state, to_state)
           IN /\ TotalEntries(W.items, Len(W.items)) <= MaxTrans
              /\ Commit(W, Idle)
    /\ UNCHANGED <<selected_state, file>>

\* AutomataWindow.save_automaton
save_automaton ==
    \E accept \in Orders(automaton.accept_states) :
        /\ file' = SaveData(World("raise"), accept)
        /\ result' = Idle
        /\ UNCHANGED <<items, automaton, selected_state>>

\* AutomataWindow.load_automaton, of a file this program saved
load_automaton ==
    /\ file.saved
    /\ LET W == Load(file,
                     IF selected_state = NoItem THEN << >> ELSE <<items[selected_state]>>,
                     "raise")
       IN /\ Commit(W, Outcome(W))
          /\ selected_state' =
                 IF selected_state = NoItem THEN NoItem ELSE Len(W.items)
    /\ UNCHANGED file

Next ==
    \/ add_state
    \/ on_state_clicked
    \/ set_start_state
    \/ set_accept_state
    \/ add_transition
    \/ save_automaton
    \/ load_automaton

Spec == Init /\ [][Next]_vars

----------------------------------------------------------------------------
(* The engine driven directly by a caller, in either mode. *)

InitEngine ==
    /\ items = << >>
    /\ automaton \in {Automaton(TRUE), Automaton(FALSE)}
    /\ selected_state = NoItem
    /\ file = NoFile
    /\ result = Idle

\* The caller constructs a StateItem; it keeps state names unique, as the
\* window does before it builds one.
NewStateItem ==
    \E name \in Names :
        /\ \A o \in DOMAIN items : items[o].name # name
        /\ items' = Append(items, StateItem(name))
        /\ result' = Idle
        /\ UNCHANGED <<automaton, selected_state, file>>

CallAddState ==
    \E o \in DOMAIN items :
        /\ Commit(Automaton_add_state(World("raise"), o), Idle)
        /\ UNCHANGED <<selected_state, file>>

CallSetStart ==
    \E o \in DOMAIN items :
        /\ Commit(Automaton_set_start(World("raise"), o), Idle)
        /\ UNCHANGED <<selected_state, file>>

CallSetAccept ==
    \E o \in DOMAIN items :
        /\ Commit(Automaton_set_accept(World("raise"), o), Idle)
        /\ UNCHANGED <<selected_state, file>>

CallAddTransition ==
    \E from_state \in DOMAIN items, to_state \in DOMAIN items, symbol \in Symbols :
        LET W == Automaton_add_transition(World("raise"), from_state, symbol, to_state)
        IN /\ TotalEntries(W.items, Len(W.items)) <= MaxTrans
           /\ Commit(W, Idle)
           /\ UNCHANGED <<selected_state, file>>

CallSimulate ==
    \E input_str \in Inputs :
        /\ result' = Automaton_simulate(World("raise"), input_str)
        /\ UNCHANGED <<items, automaton, selected_state, file>>

NextEngine ==
    \/ NewStateItem
    \/ CallAddState
    \/ CallSetStart
    \/ CallSetAccept
    \/ CallAddTransition
    \/ CallSimulate

EngineSpec == InitEngine /\ [][NextEngine]_vars

----------------------------------------------------------------------------
(* Claims *)

\* The world of the current state.
Now == World("raise")

\* The transition table of the state mapped under a name.
TableOf(W, n) == W.items[W.automaton.states[n]].transitions

\* C1: simulate returns true or false for every input in both modes and
\* never raises, whatever add_state, set_start, set_accept and
\* add_transition calls built the automaton.
C1_SimulateNeverRaises == result.status # "raised"

C3_StartExclusive ==
    /\ Cardinality({o \in Mapped(automaton) : items[o].is_start}) <= 1
    /\ automaton.start_state # None =>
          /\ automaton.start_state \in DOMAIN automaton.states
          /\ \A n \in DOMAIN automaton.states :
                items[automaton.states[n]].is_start <=> n = automaton.start_state

C5_NoStartRejects ==
    (automaton.start_state = None /\ result.status # "idle")
        => (result.status = "returned" /\ result.ret = FALSE)

\* A run on a non-empty input in NFA mode, with no start state set, of an
\* automaton that holds states, accept marks and transitions.
C5_Witness ==
    /\ automaton.start_state = None
    /\ ~automaton.is_dfa
    /\ result.status = "returned"
    /\ Len(result.input) = MaxLen
    /\ automaton.accept_states # {}
    /\ \E n \in DOMAIN automaton.states : DOMAIN TableOf(Now, n) # {}

\* Every target list is non-empty and holds no name twice.
NoDuplicates(its) ==
    \A o \in DOMAIN its : \A c \in DOMAIN its[o].transitions :
        LET list == its[o].transitions[c]
        IN /\ Len(list) >= 1
           /\ \A i, j \in 1..Len(list) : list[i] = list[j] => i = j

\* list0 is an initial part of list1.
IsPrefix(list0, list1) ==
    /\ Len(list0) <= Len(list1)
    /\ \A i \in 1..Len(list0) : list0[i] = list1[i]

\* C6: no target list holds a name twice or is empty; add_transition keeps
\* the list as a prefix, leaves the target in it exactly once, changes nothing
\* when repeated; a load keeps each list in its saved order.
C6_TransitionDedup ==
    /\ NoDuplicates(items)
    /\ \A from_state \in DOMAIN items, to_state \in DOMAIN items, c \in Symbols :
          LET W1 == Automaton_add_transition(Now, from_state, c, to_state)
              list0 == IF c \in DOMAIN items[from_state].transitions
                       THEN items[from_state].transitions[c] ELSE << >>
              list1 == W1.items[from_state].transitions[c]
          IN /\ IsPrefix(list0, list1)
             /\ Len(list1) <= Len(list0) + 1
             /\ Cardinality({i \in 1..Len(list1) : list1[i] = items[to_state].name}) = 1
             /\ Automaton_add_transition(W1, from_state, c, to_state) = W1
    /\ \A accept \in Orders(automaton.accept_states) :
          LET L == Load(SaveData(Now, accept), << >>, "raise")
              IsKey(n) == n \in DOMAIN automaton.states
          IN /\ NoDuplicates(L.items)
             /\ L.error = NoError =>
                   \A n \in DOMAIN automaton.states, c \in Symbols :
                       LET saved == IF c \in DOMAIN TableOf(Now, n)
                                    THEN SelectSeq(TableOf(Now, n)[c], IsKey) ELSE << >>
                       IN IF saved = << >>
                          THEN c \notin DOMAIN TableOf(L, n)
                          ELSE c \in DOMAIN TableOf(L, n) /\ TableOf(L, n)[c] = saved

\* A list with two targets exists, so a second add of its first target is a
\* repeat that is suppressed and a second target was appended after the first.
C6_Witness ==
    \E o \in DOMAIN items : \E c \in DOMAIN items[o].transitions :
        /\ Len(items[o].transitions[c]) = 2
        /\ o \in Mapped(automaton)

\* The reference run of DFA mode: a walk p from start_state that at each
\* character takes the first name of that character's list, and ends in an
\* accept state.
RefDfaAccepts(s) ==
    \E p \in [1..Len(s) + 1 -> Names] :
        /\ p[1] = automaton.start_state
        /\ \A i \in 1..Len(s) :
              /\ p[i] \in DOMAIN automaton.states
              /\ s[i] \in DOMAIN TableOf(Now, p[i])
              /\ p[i + 1] = TableOf(Now, p[i])[s[i]][1]
        /\ p[Len(s) + 1] \in automaton.accept_states

\* C7: in DFA mode with a start state set, simulate returns the result of
\* the reference run.
C7_DfaMatchesReference ==
    (automaton.is_dfa /\ automaton.start_state # None /\ result.status # "idle")
        => (result.status = "returned" /\ result.ret = RefDfaAccepts(result.input))

\* An accepted run in DFA mode whose first character has two targets.
C7_Witness ==
    /\ automaton.is_dfa
    /\ result.status = "returned"
    /\ result.ret
    /\ Len(result.input) >= 1
    /\ automaton.start_state \in DOMAIN automaton.states
    /\ result.input[1] \in DOMAIN TableOf(Now, automaton.start_state)
    /\ Len(TableOf(Now, automaton.start_state)[result.input[1]]) = 2

\* The state object built under a name is in the heap.
HasItem(n) == \E o \in DOMAIN items : items[o].name = n

\* The transition table stored on the state object built under a name.
StoredTable(n) == items[CHOOSE o \in DOMAIN items : items[o].name = n].transitions

\* Some path of stored transitions from start_state spells s and ends in an
\* accept state.
PathAccepts(s) ==
    \E p \in [1..Len(s) + 1 -> Names] :
        /\ p[1] = automaton.start_state
        /\ \A i \in 1..Len(s) :
              /\ HasItem(p[i])
              /\ s[i] \in DOMAIN StoredTable(p[i])
              /\ InList(StoredTable(p[i])[s[i]], p[i + 1])
        /\ p[Len(s) + 1] \in automaton.accept_states

\* Every transition target stored on any state object is a key of states.
TargetsMapped ==
    \A o \in DOMAIN items : \A c \in DOMAIN items[o].transitions :
        \A j \in 1..Len(items[o].transitions[c]) :
            items[o].transitions[c][j] \in DOMAIN automaton.states

\* C8: in NFA mode with a start state set and every transition target in
\* the state mapping, simulate returns true exactly when some path of
\* transitions spelling the input leads from the start state to an accept
\* state.
C8_NfaMatchesPaths ==
    (~automaton.is_dfa /\ automaton.start_state # None /\ TargetsMapped
        /\ result.status # "idle")
        => ((result.status = "returned" /\ result.ret) <=> PathAccepts(result.input))

\* C9: in an NFA-mode run, once the frontier is empty after a character it
\* is empty after every later character and the run returns false.
C9_EmptyFrontierStays ==
    (~automaton.is_dfa /\ result.status # "idle") =>
        \A i \in 1..Len(result.frontiers) :
            result.frontiers[i] = {} =>
                /\ \A j \in i..Len(result.frontiers) : result.frontiers[j] = {}
                /\ Len(result.frontiers) = Len(result.input)
                /\ result.status = "returned"
                /\ result.ret = FALSE

\* A run whose frontier is non-empty after the first character and empty
\* after the second, in an automaton with an accept state.
C9_Witness ==
    /\ ~automaton.is_dfa
    /\ Len(result.frontiers) = MaxLen
    /\ result.frontiers[1] # {}
    /\ result.frontiers[2] = {}
    /\ automaton.accept_states # {}

\* A second set_accept on the same state changes nothing, and the state is
\* marked with its name in accept_states.
SetAcceptTwice ==
    \A o \in DOMAIN items :
        LET W1 == Automaton_set_accept(Now, o)
        IN /\ Automaton_set_accept(W1, o) = W1
           /\ W1.items[o].is_accept
           /\ W1.items[o].name \in W1.automaton.accept_states

\* A step keeps every accept mark.
KeepsAcceptMarks ==
    /\ automaton.accept_states \subseteq automaton'.accept_states
    /\ \A o \in DOMAIN items : items[o].is_accept => items'[o].is_accept

\* C10: set_accept is idempotent, and no operation un-marks an accept state.
C10_SetAcceptIdempotent == []SetAcceptTwice /\ [][KeepsAcceptMarks]_vars

\* set_accept has marked a state, and another state is not marked.
C10_Witness ==
    /\ \E o \in DOMAIN items :
          items[o].is_accept /\ items[o].name \in automaton.accept_states
    /\ \E o \in DOMAIN items : ~items[o].is_accept
    /\ Cardinality(automaton.accept_states) = 1

====
